---- MODULE Spec2Model ----
(***************************************************************************)
(* Orbit tracking service: position propagation, the time grid and the     *)
(* close-approach scan of satelity_api.py, satelity_serwisy.py and         *)
(* satelity_modele.py.                                                     *)
(*                                                                         *)
(* Scales.  Instants and durations are whole milliseconds (an instant is   *)
(* its POSIX timestamp), lengths are whole units of 0.01 km, angles are    *)
(* whole degrees.  Sines and cosines are taken at a resolution of a        *)
(* quarter turn (the angle is cut down to a multiple of 90 degrees), where *)
(* they are the exact integers -1, 0, 1; every catalogue of the model      *)
(* keeps inclinations, nodes and initial longitudes on that grid.          *)
(***************************************************************************)
EXTENDS Integers, Sequences, FiniteSets, TLC

\* ------------------------------------------------------------------------
\* Constants of satelity_modele.py, on the scales above
\* ------------------------------------------------------------------------

\* SREDNICA_BAZOWA_ZIEMI = 6371.0 km
SREDNICA_BAZOWA_ZIEMI == 637100

\* TOLERANCJA_ZBLIZENIA = 0.01 km
TOLERANCJA_ZBLIZENIA == 1

\* MINIMALNA_WYSOKOSC_ORBITY = 160.0 km, MAKSYMALNA_WYSOKOSC_ORBITY = 40000.0 km
MINIMALNA_WYSOKOSC_ORBITY == 16000

MAKSYMALNA_WYSOKOSC_ORBITY == 4000000

\* timedelta(milliseconds=1): the unit of time of the model
MILISEKUNDA == 1

SEKUNDA == 1000 * MILISEKUNDA

MINUTA == 60 * SEKUNDA

GODZINA == 60 * MINUTA

DOBA == 24 * GODZINA

\* EPSILON_NUMERYCZNY = 1e-9 lies strictly between 0 and the smallest
\* positive value of any scale of the model: x > EPSILON is x > 0 and
\* x < EPSILON is x < 1 on whole numbers.
WiekszeOdEpsilon(x) == x > 0

MniejszeOdEpsilon(x) == x < 1

\* Squares of coordinate differences saturate at ZASIEG (200 km): a
\* separation beyond it is recorded as "at least ZASIEG".  Every threshold
\* of the model is far below it.
ZASIEG == 20000

Abs(x) == IF x < 0 THEN -x ELSE x

Min2(a, b) == IF a < b THEN a ELSE b

Max2(a, b) == IF a > b THEN a ELSE b

\* ------------------------------------------------------------------------
\* Outcomes of a computation
\* ------------------------------------------------------------------------

\* None: "obiekt jeszcze nie istnial"
BRAK_POZYCJI == [typ |-> "None"]

\* an exception raised by math.sqrt (ValueError: math domain error)
BLAD_DZIEDZINY == [typ |-> "ValueError"]

\* BladObliczenOrbitych
BLAD_OBLICZEN == [typ |-> "BladObliczenOrbitych"]

CzyPozycja(w) == w.typ = "WspolrzedneGeodezyjne"

CzyWyjatek(w) == w.typ \in {"ValueError", "BladObliczenOrbitych"}

\* ------------------------------------------------------------------------
\* Trigonometry at quarter-turn resolution
\* ------------------------------------------------------------------------

Cwiartka(stopnie) == (stopnie % 360) \div 90

SinStopni(stopnie) ==
    CASE Cwiartka(stopnie) = 0 -> 0
      [] Cwiartka(stopnie) = 1 -> 1
      [] Cwiartka(stopnie) = 2 -> 0
      [] Cwiartka(stopnie) = 3 -> -1

CosStopni(stopnie) ==
    CASE Cwiartka(stopnie) = 0 -> 1
      [] Cwiartka(stopnie) = 1 -> 0
      [] Cwiartka(stopnie) = 2 -> -1
      [] Cwiartka(stopnie) = 3 -> 0

\* math.degrees(math.asin(v)) for v in -1, 0, 1
AsinStopni(v) == 90 * v

\* math.degrees(math.atan2(y, x)), a result in (-180, 180]
Atan2Stopni(y, x) ==
    CASE y = 0 /\ x >= 0 -> 0
      [] y = 0 /\ x < 0 -> 180
      [] y > 0 /\ x = 0 -> 90
      [] y < 0 /\ x = 0 -> -90
      [] y > 0 /\ x > 0 -> 45
      [] y > 0 /\ x < 0 -> 135
      [] y < 0 /\ x > 0 -> -45
      [] y < 0 /\ x < 0 -> -135

\* ------------------------------------------------------------------------
\* WspolrzedneGeodezyjne
\* ------------------------------------------------------------------------

WspolrzedneGeodezyjne(szer, dlug, wys) ==
    [typ |-> "WspolrzedneGeodezyjne",
     szer_geogr |-> szer, dlug_geogr |-> dlug, wysokosc_npm |-> wys]

do_kartezjanskich(p) ==
    LET promien_calkowity == SREDNICA_BAZOWA_ZIEMI + p.wysokosc_npm
    IN  <<promien_calkowity * CosStopni(p.szer_geogr) * CosStopni(p.dlug_geogr),
          promien_calkowity * CosStopni(p.szer_geogr) * SinStopni(p.dlug_geogr),
          promien_calkowity * SinStopni(p.szer_geogr)>>

Kwadrat(v) == IF Abs(v) > ZASIEG THEN ZASIEG * ZASIEG ELSE v * v

\* dystans_do, as the square of the distance (the square root is not taken:
\* d < p is d*d < p*p for d, p >= 0)
dystans_do_kw(p, inne) ==
    LET k1 == do_kartezjanskich(p)
        k2 == do_kartezjanskich(inne)
    IN  Kwadrat(k2[1] - k1[1]) + Kwadrat(k2[2] - k1[2]) + Kwadrat(k2[3] - k1[3])

\* ------------------------------------------------------------------------
\* ParametryOrbitalne
\* ------------------------------------------------------------------------

ParametryOrbitalne(a, inkl, wezel) ==
    [polOs_wielka |-> a, inklinacja_kat |-> inkl, wezl_wstepujacy |-> wezel]

\* oblicz_okres_orbitalny: T = 2*pi*sqrt(a^3 / mu), mu = 398600.4418 km^3/s^2,
\* tabulated to the nearest second for the semi-major axes of the model:
\*   5076.39 .. 5077.32 km ->  3600 s      8058.63 .. 8059.37 km -> 7200 s
\*  12792.57 .. 12793.15 km -> 14400 s
\* math.sqrt of a negative number raises ValueError; a = 0 gives T = 0.
oblicz_okres_orbitalny(parametry) ==
    LET a == parametry.polOs_wielka
    IN  CASE a < 0 -> BLAD_DZIEDZINY
          [] a = 0 -> [typ |-> "float", wartosc |-> 0]
          [] a >= 507639 /\ a <= 507732 -> [typ |-> "float", wartosc |-> GODZINA]
          [] a >= 805863 /\ a <= 805937 -> [typ |-> "float", wartosc |-> 2 * GODZINA]
          [] a >= 1279257 /\ a <= 1279315 -> [typ |-> "float", wartosc |-> 4 * GODZINA]

\* oblicz_predkosc_katowa: omega = 2*pi / T if T > EPSILON else 0.0, in
\* degrees per hour
oblicz_predkosc_katowa(parametry) ==
    LET T == oblicz_okres_orbitalny(parametry)
    IN  IF CzyWyjatek(T) THEN T
        ELSE IF WiekszeOdEpsilon(T.wartosc)
             THEN [typ |-> "float", wartosc |-> (360 * GODZINA) \div T.wartosc]
             ELSE [typ |-> "float", wartosc |-> 0]

\* omega * czas in whole degrees, omega in degrees per hour and czas in ms
\* (the product is split so that no intermediate value leaves 32 bits)
KatObrotu(omega, czas) ==
    (czas \div GODZINA) * omega + ((czas % GODZINA) * omega) \div GODZINA

\* ------------------------------------------------------------------------
\* PropagatorKeplerowski
\* ------------------------------------------------------------------------

normalizuj_dlugosc(dlugosc_deg) == ((dlugosc_deg + 180) % 360) - 180

propaguj_z_opadaniem(parametry, czas_od_epoki, dlug_poczatkowa) ==
    WspolrzedneGeodezyjne(0, normalizuj_dlugosc(dlug_poczatkowa),
                          parametry.polOs_wielka - SREDNICA_BAZOWA_ZIEMI
                              - czas_od_epoki \div GODZINA)

propaguj_pozycje(parametry, czas_od_epoki, dlug_poczatkowa) ==
    LET omega_kat == oblicz_predkosc_katowa(parametry)
    IN  IF CzyWyjatek(omega_kat) THEN omega_kat
        ELSE
        LET anomalia_prawdziwa ==
                (KatObrotu(omega_kat.wartosc, czas_od_epoki) + dlug_poczatkowa) % 360
            szer_geo ==
                AsinStopni(SinStopni(parametry.inklinacja_kat)
                           * SinStopni(anomalia_prawdziwa))
            dlug_wsp ==
                Atan2Stopni(CosStopni(parametry.inklinacja_kat)
                            * SinStopni(anomalia_prawdziwa),
                            CosStopni(anomalia_prawdziwa))
                + parametry.wezl_wstepujacy
            dlug_geo == normalizuj_dlugosc(dlug_wsp)
            wysokosc == parametry.polOs_wielka - SREDNICA_BAZOWA_ZIEMI
        IN  WspolrzedneGeodezyjne(szer_geo, dlug_geo, wysokosc)

\* PropagatorKeplerowski.oblicz_pozycje: the checked entry point
oblicz_pozycje(param_orb, moment, dlugosc_pocz, data_startowa) ==
    LET delta_t == moment - data_startowa
        omega == oblicz_predkosc_katowa(param_orb)
    IN  IF delta_t < 0 THEN BLAD_OBLICZEN
        ELSE IF CzyWyjatek(omega) THEN omega
        ELSE IF MniejszeOdEpsilon(Abs(omega.wartosc)) THEN BLAD_OBLICZEN
        ELSE propaguj_pozycje(param_orb, delta_t, dlugosc_pocz)

\* ------------------------------------------------------------------------
\* WalidatorISO8601.  A timestamp parameter is either text that isoparse
\* reads, carried as the instant it denotes, or text it rejects.
\* ------------------------------------------------------------------------

Znacznik(t) == [typ |-> "iso8601", czas |-> t]

ZLY_ZNACZNIK == [typ |-> "nieczytelny"]

\* waliduj_znacznik: the datetime, or BladWalidacjiCzasu
waliduj_znacznik(znacznik_czasowy) ==
    IF znacznik_czasowy.typ = "iso8601"
    THEN [typ |-> "datetime", czas |-> znacznik_czasowy.czas]
    ELSE [typ |-> "BladWalidacjiCzasu"]

\* ------------------------------------------------------------------------
\* SerwisAnalizyZdarzen.parsuj_precyzje.  A token is a sequence of
\* characters.  re.match of ^(\d+)(ms|s|m|h|d)$: the digits are the longest
\* digit prefix, the rest is a unit, and $ also matches before one final
\* newline.
\* ------------------------------------------------------------------------

Cyfry == {"0", "1", "2", "3", "4", "5", "6", "7", "8", "9"}

WartoscCyfry(c) ==
    CASE c = "0" -> 0 [] c = "1" -> 1 [] c = "2" -> 2 [] c = "3" -> 3
      [] c = "4" -> 4 [] c = "5" -> 5 [] c = "6" -> 6 [] c = "7" -> 7
      [] c = "8" -> 8 [] c = "9" -> 9

RECURSIVE LiczbaCyfr(_, _)
\* the length of the longest run of digits of tekst that starts at index i
LiczbaCyfr(tekst, i) ==
    IF i <= Len(tekst) /\ tekst[i] \in Cyfry
    THEN 1 + LiczbaCyfr(tekst, i + 1)
    ELSE 0

RECURSIVE WartoscDziesietna(_)
\* int(match.group(1))
WartoscDziesietna(cyfry) ==
    IF cyfry = <<>> THEN 0
    ELSE 10 * WartoscDziesietna(SubSeq(cyfry, 1, Len(cyfry) - 1))
         + WartoscCyfry(cyfry[Len(cyfry)])

Jednostki == {<<"m", "s">>, <<"s">>, <<"m">>, <<"h">>, <<"d">>}

\* mapowanie[jednostka](wartosc)
mapowanie(jednostka, v) ==
    CASE jednostka = <<"m", "s">> -> v * MILISEKUNDA
      [] jednostka = <<"s">> -> v * SEKUNDA
      [] jednostka = <<"m">> -> v * MINUTA
      [] jednostka = <<"h">> -> v * GODZINA
      [] jednostka = <<"d">> -> v * DOBA

BezKoncowegoNowegoWiersza(tekst) ==
    IF tekst # <<>> /\ tekst[Len(tekst)] = "\n"
    THEN SubSeq(tekst, 1, Len(tekst) - 1)
    ELSE tekst

parsuj_precyzje(tekst_precyzji) ==
    LET n == LiczbaCyfr(tekst_precyzji, 1)
        jednostka ==
            BezKoncowegoNowegoWiersza(SubSeq(tekst_precyzji, n + 1, Len(tekst_precyzji)))
        wartosc == WartoscDziesietna(SubSeq(tekst_precyzji, 1, n))
    IN  IF n = 0 \/ jednostka \notin Jednostki THEN [typ |-> "ValueError"]
        ELSE IF wartosc < 1 THEN [typ |-> "ValueError"]
        ELSE [typ |-> "timedelta", wartosc |-> mapowanie(jednostka, wartosc)]

\* ------------------------------------------------------------------------
\* SerwisAnalizyZdarzen.zaokraglij_do_siatki
\* ------------------------------------------------------------------------

\* round(licznik / mianownik) of Python 3: to the nearest whole number, a
\* tie to the even one
w_dol(licznik, mianownik) == licznik \div mianownik

round(licznik, mianownik) ==
    LET q == licznik \div mianownik
        r == licznik % mianownik
    IN  IF 2 * r < mianownik THEN q
        ELSE IF 2 * r > mianownik THEN q + 1
        ELSE IF q % 2 = 0 THEN q ELSE q + 1

zaokraglij_bez_mnozenia(dt, delta) == round(dt, delta)

zaokraglij_do_siatki(dt, delta) == round(dt, delta) * delta

\* ------------------------------------------------------------------------
\* The catalogue: rows of obj_katalog joined with their orb_katalog row
\* ------------------------------------------------------------------------

\* ModelOrbityBD
ModelOrbityBD(wysokosc, inklinacja, wezel) ==
    [wysokosc_km |-> wysokosc, kat_inklinacji |-> inklinacja, wezel_wst |-> wezel]

\* ModelObiektuBD; data_wprowadzenia is stored without a zone and read as UTC
ModelObiektuBD(id, data, stan, dlugosc, orbita) ==
    [id_rekordu |-> id, data_wprowadzenia |-> data, stan_operacyjny |-> stan,
     pozycja_startowa_lon |-> dlugosc, orbita_ref |-> orbita]

\* TypObiektu
TypObiektu == {"active", "inactive", "deorbited"}

\* the longest catalogue of the model
MaxObiektow == 3

\* Orbits the input schema accepts (SchematOrbitWejscie): an equatorial
\* orbit at 1688.00 km, one 0.01 km above it, a polar one at 6421.86 km
ORBITA_A == ModelOrbityBD(168800, 0, 0)

ORBITA_B == ModelOrbityBD(168801, 0, 0)

ORBITA_C == ModelOrbityBD(642186, 90, 90)

\* SchematOrbitWejscie: wysokosc gt 160, le 40000; inklinacja ge 0, le 180;
\* wezel ge 0, lt 360
SchematOrbitWejscie(o) ==
    /\ o.wysokosc_km > MINIMALNA_WYSOKOSC_ORBITY
    /\ o.wysokosc_km <= MAKSYMALNA_WYSOKOSC_ORBITY
    /\ o.kat_inklinacji >= 0 /\ o.kat_inklinacji <= 180
    /\ o.wezel_wst >= 0 /\ o.wezel_wst < 360

\* Objects written through the API
ObiektyAPI ==
    { ModelObiektuBD(1, 0, "active", 0, ORBITA_A),
      ModelObiektuBD(1, 2 * GODZINA, "active", 0, ORBITA_A),
      ModelObiektuBD(2, 0, "active", 0, ORBITA_A),
      ModelObiektuBD(2, 0, "active", 0, ORBITA_B),
      ModelObiektuBD(2, 0, "deorbited", 0, ORBITA_A),
      ModelObiektuBD(3, 0, "active", 0, ORBITA_A),
      ModelObiektuBD(3, 0, "inactive", 0, ORBITA_A),
      ModelObiektuBD(3, GODZINA, "active", -90, ORBITA_C) }

\* Orbits no input schema has checked: a semi-major axis of zero, a
\* negative one, and one below the surface (5076.85 km)
ORBITA_ZERO == ModelOrbityBD(-637100, 0, 0)

ORBITA_UJEMNA == ModelOrbityBD(-637200, 0, 0)

ORBITA_PODZIEMNA == ModelOrbityBD(-129415, 0, 0)

\* Objects handed to the services by any caller
ObiektyDowolne ==
    { ModelObiektuBD(1, 0, "active", 0, ORBITA_A),
      ModelObiektuBD(1, 0, "active", 0, ORBITA_ZERO),
      ModelObiektuBD(1, GODZINA, "active", 0, ORBITA_UJEMNA),
      ModelObiektuBD(2, 0, "active", 0, ORBITA_A),
      ModelObiektuBD(2, 0, "active", 0, ORBITA_ZERO),
      ModelObiektuBD(2, 0, "active", 0, ORBITA_PODZIEMNA),
      ModelObiektuBD(3, 0, "active", 0, ORBITA_A),
      ModelObiektuBD(3, 0, "inactive", 0, ORBITA_UJEMNA) }

\* rows of the session wykryj_kolizje is called with
ObiektySerwisu ==
    { ModelObiektuBD(1, 0, "active", 0, ORBITA_A),
      ModelObiektuBD(1, 0, "active", 0, ORBITA_B),
      ModelObiektuBD(1, 0, "active", 0, ORBITA_UJEMNA),
      ModelObiektuBD(2, 0, "active", 0, ORBITA_A),
      ModelObiektuBD(2, 0, "active", 0, ORBITA_B),
      ModelObiektuBD(2, 0, "active", 0, ORBITA_ZERO),
      ModelObiektuBD(3, 2 * GODZINA, "active", 0, ORBITA_A),
      ModelObiektuBD(3, 0, "inactive", 0, ORBITA_A),
      ModelObiektuBD(3, 0, "active", 90, ORBITA_C) }

\* All orderings of rows with pairwise distinct primary keys
Katalogi(wiersze) ==
    { k \in UNION { [1..n -> wiersze] : n \in 0..MaxObiektow } :
        \A i, j \in 1..Len(k) : i # j => k[i].id_rekordu # k[j].id_rekordu }

\* ------------------------------------------------------------------------
\* SerwisObliczenOrbitalalnych.oblicz_pozycje_w_czasie (satelity_api.py)
\* ------------------------------------------------------------------------

NiePoWprowadzeniu(znacznik_czasu, data_wprowadzenia) ==
    znacznik_czasu <= data_wprowadzenia

\* znacznik_czasu < data_wprowadzenia
PrzedWprowadzeniem(znacznik_czasu, data_wprowadzenia) ==
    znacznik_czasu < data_wprowadzenia

oblicz_pozycje_w_czasie(model_obiektu, znacznik_czasu) ==
    IF PrzedWprowadzeniem(znacznik_czasu, model_obiektu.data_wprowadzenia)
    THEN BRAK_POZYCJI
    ELSE LET orbita == model_obiektu.orbita_ref
             params == ParametryOrbitalne(SREDNICA_BAZOWA_ZIEMI + orbita.wysokosc_km,
                                          orbita.kat_inklinacji, orbita.wezel_wst)
             delta_czasu == znacznik_czasu - model_obiektu.data_wprowadzenia
         IN  propaguj_pozycje(params, delta_czasu, model_obiektu.pozycja_startowa_lon)

\* ------------------------------------------------------------------------
\* One tick of SerwisAnalizyZdarzen.wykryj_zdarzenia_w_przedziale
\* ------------------------------------------------------------------------

\* self.prog_wykrywania
prog_wykrywania == TOLERANCJA_ZBLIZENIA

NieWiekszeOdProgu(dystans_kw, prog) == dystans_kw <= prog * prog

\* dystans < self.prog_wykrywania
PonizejProgu(dystans_kw, prog) == dystans_kw < prog * prog

RECURSIVE sorted(_)
\* sorted(pozycje_map.keys())
sorted(S) ==
    IF S = {} THEN <<>>
    ELSE LET m == CHOOSE x \in S : \A y \in S : x <= y
         IN  <<m>> \o sorted(S \ {m})

RECURSIVE ParyOd(_, _, _, _)
\* the pairs <<ids[i], ids[j]>> taken row by row; row i starts at column
\* i + przesuniecie
ParyOd(ids, i, j, przesuniecie) ==
    IF i > Len(ids) THEN <<>>
    ELSE IF j > Len(ids) THEN ParyOd(ids, i + 1, i + 1 + przesuniecie, przesuniecie)
    ELSE <<<<ids[i], ids[j]>>>> \o ParyOd(ids, i, j + 1, przesuniecie)

\* for i, id_a in enumerate(ids_aktywne): for id_b in ids_aktywne[i+1:]
ParyObiektowZeSoba(ids) == ParyOd(ids, 1, 1, 0)

ParyObiektow(ids) == ParyOd(ids, 1, 2, 1)

ZdarzeniePrzestrz(id_a, id_b, moment, lokalizacja, dystans_kw) ==
    [obiekt_id_a |-> id_a, obiekt_id_b |-> id_b, moment_czasu |-> moment,
     lokalizacja |-> lokalizacja, dystans_min_kw |-> dystans_kw]

WszystkieWiersze(lista) == 1..Len(lista)

\* the rows of obiekty the position loop visits: the active ones
Aktywne(lista) ==
    { i \in 1..Len(lista) : lista[i].stan_operacyjny = "active" }

\* the first row whose position computation raises, 0 if none does
PierwszyWyjatek(lista, czas) ==
    LET zle == { i \in Aktywne(lista) : CzyWyjatek(oblicz_pozycje_w_czasie(lista[i], czas)) }
    IN  IF zle = {} THEN 0 ELSE CHOOSE i \in zle : \A j \in zle : i <= j

\* pozycje_map after the position loop has visited the rows before `koniec`
\* (all rows when koniec = 0): pozycja is not None
MapaPozycji(lista, czas, koniec) ==
    LET odwiedzone == { i \in Aktywne(lista) : koniec = 0 \/ i < koniec }
        zPozycja == { i \in odwiedzone : CzyPozycja(oblicz_pozycje_w_czasie(lista[i], czas)) }
        klucze == { lista[i].id_rekordu : i \in zPozycja }
    IN  [ id \in klucze |->
            LET i == CHOOSE j \in zPozycja :
                        /\ lista[j].id_rekordu = id
                        /\ \A l \in zPozycja : lista[l].id_rekordu = id => l <= j
            IN  oblicz_pozycje_w_czasie(lista[i], czas) ]

RECURSIVE ZdarzeniaPar(_, _, _)
\* the events the pair loop appends for the pairs `pary`, in their order
ZdarzeniaPar(pary, mapa, czas) ==
    IF pary = <<>> THEN <<>>
    ELSE LET id_a == pary[1][1]
             id_b == pary[1][2]
             poz_a == mapa[id_a]
             poz_b == mapa[id_b]
             dystans_kw == dystans_do_kw(poz_a, poz_b)
             reszta == ZdarzeniaPar(Tail(pary), mapa, czas)
         IN  IF PonizejProgu(dystans_kw, prog_wykrywania)
             THEN <<ZdarzeniePrzestrz(Min2(id_a, id_b), Max2(id_a, id_b), czas,
                                      poz_a, dystans_kw)>> \o reszta
             ELSE reszta

ZdarzeniaKroku(mapa, czas) ==
    ZdarzeniaPar(ParyObiektow(sorted(DOMAIN mapa)), mapa, czas)

\* ------------------------------------------------------------------------
\* zdarzenia.sort(key=lambda z: (z.moment_czasu, z.obiekt_id_a, z.obiekt_id_b))
\* ------------------------------------------------------------------------

KluczBezCzasuNaPoczatku(z) == <<z.obiekt_id_a, z.obiekt_id_b, z.moment_czasu>>

KluczSortowania(z) == <<z.moment_czasu, z.obiekt_id_a, z.obiekt_id_b>>

\* k1 <= k2 on tuples of three
KrotkaNieWieksza(k1, k2) ==
    \/ k1[1] < k2[1]
    \/ k1[1] = k2[1] /\ k1[2] < k2[2]
    \/ k1[1] = k2[1] /\ k1[2] = k2[2] /\ k1[3] <= k2[3]

RECURSIVE Wstaw(_, _)
\* z placed behind every element whose key is not greater (a stable sort)
Wstaw(z, posortowane) ==
    IF posortowane = <<>> THEN <<z>>
    ELSE IF KrotkaNieWieksza(KluczSortowania(Head(posortowane)), KluczSortowania(z))
         THEN <<Head(posortowane)>> \o Wstaw(z, Tail(posortowane))
         ELSE <<z>> \o posortowane

RECURSIVE sort(_)
sort(lista) ==
    IF lista = <<>> THEN <<>>
    ELSE Wstaw(lista[Len(lista)], sort(SubSeq(lista, 1, Len(lista) - 1)))

\* strftime("%Y-%m-%dT%H:%M:%SZ"): the instant cut to whole seconds
strftime(moment) == (moment \div SEKUNDA) * SEKUNDA

SchematPozycjiWyjscie(w) ==
    [szerokosc |-> w.szer_geogr, dlugosc |-> w.dlug_geogr, wysokosc |-> w.wysokosc_npm]

SchematZdarzeniaKolizji(z) ==
    [satelita1 |-> z.obiekt_id_a, satelita2 |-> z.obiekt_id_b,
     czas |-> strftime(z.moment_czasu), pozycja |-> SchematPozycjiWyjscie(z.lokalizacja)]

\* ------------------------------------------------------------------------
\* State
\* ------------------------------------------------------------------------

VARIABLES
    katalog,          \* the rows sesja.query(ModelObiektuBD).join(ModelOrbityBD) returns
    pc,               \* "bezczynny": no handler runs; "petla": inside the while loop
    zadanie,          \* the request being served, or the last one served
    odpowiedz,        \* the response to it
    odczytano,        \* the handler has read the catalogue
    obiekty,          \* wykryj_zblizenia: obiekty
    czas_start,       \* wykryj_zdarzenia_w_przedziale: czas_start, after rounding
    czas_koniec,      \*   czas_koniec, after rounding
    delta_czasu,      \*   delta_czasu
    czas_obecny,      \*   czas_obecny
    licznik_krokow,   \*   licznik_krokow
    zdarzenia,        \*   zdarzenia
    pozycje_map,      \*   pozycje_map of the tick analysed last
    analizowane,      \* the instants analysed so far, in order
    pierwsze,         \* the first request answered, with what it returned
    g_dt,             \* zaokraglij_do_siatki called on its own: dt,
    g_delta,          \*   delta,
    g_wyniki,         \*   and the results of rounding, then rounding the result
    p_tekst,          \* parsuj_precyzje called on its own: tekst_precyzji
    p_wynik,          \*   and what the call gave
    k_zadanie,        \* wykryj_kolizje (satelity_serwisy.py): the call served last
    k_ids,            \*   ids = list(pozycje.keys())
    k_pozycje,        \*   pozycje
    k_zdarzenia,      \*   the list returned
    d_kat,            \* _normalizuj_dlugosc called on its own: dlugosc_deg
    d_wynik,          \*   and the value returned
    bd_obiekty,       \* table obj_katalog, as utworz_obiekt and aktualizuj_obiekt write it
    bd_orbity,        \* table orb_katalog
    w_zadanie,        \* the request on /satelity/ or /orbity/ served last
    w_odpowiedz,      \*   and the response to it
    w_chwile          \* per id_rekordu, the instant the epoch submitted last denotes

vars == <<katalog, pc, zadanie, odpowiedz, odczytano, obiekty, czas_start,
          czas_koniec, delta_czasu, czas_obecny, licznik_krokow, zdarzenia,
          pozycje_map, analizowane, pierwsze, g_dt, g_delta, g_wyniki, p_tekst, p_wynik,
          k_zadanie, k_ids, k_pozycje, k_zdarzenia, d_kat, d_wynik,
          bd_obiekty, bd_orbity, w_zadanie, w_odpowiedz, w_chwile>>

zmienneSiatki == <<g_dt, g_delta, g_wyniki>>

zmiennePrecyzji == <<p_tekst, p_wynik>>

zmienneSerwisu == <<k_zadanie, k_ids, k_pozycje, k_zdarzenia>>

zmienneDlugosci == <<d_kat, d_wynik>>

zmienneKatalogu == <<bd_obiekty, bd_orbity, w_zadanie, w_odpowiedz, w_chwile>>

zmienneAPI == <<katalog, pc, zadanie, odpowiedz, odczytano, obiekty, czas_start,
                czas_koniec, delta_czasu, czas_obecny, licznik_krokow, zdarzenia,
                pozycje_map, analizowane, pierwsze>>

\* what the handlers of the API leave alone
pozaAPI ==
    <<zmienneSiatki, zmiennePrecyzji, zmienneSerwisu, zmienneDlugosci,
      zmienneKatalogu>>

\* what a call of zaokraglij_do_siatki on its own leaves alone
pozaSiatka ==
    <<zmienneAPI, zmiennePrecyzji, zmienneSerwisu, zmienneDlugosci,
      zmienneKatalogu>>

\* what a call of parsuj_precyzje on its own leaves alone
pozaPrecyzja ==
    <<zmienneAPI, zmienneSiatki, zmienneSerwisu, zmienneDlugosci,
      zmienneKatalogu>>

\* what a call of wykryj_kolizje leaves alone
pozaSerwisu ==
    <<zmienneAPI, zmienneSiatki, zmiennePrecyzji, zmienneDlugosci,
      zmienneKatalogu>>

\* what the handlers that write obj_katalog leave alone
pozaKatalog ==
    <<zmienneAPI, zmienneSiatki, zmiennePrecyzji, zmienneSerwisu, zmienneDlugosci>>

\* what a call of _normalizuj_dlugosc on its own leaves alone
pozaDlugosc ==
    <<zmienneAPI, zmienneSiatki, zmiennePrecyzji, zmienneSerwisu,
      zmienneKatalogu>>

\* ------------------------------------------------------------------------
\* Requests
\* ------------------------------------------------------------------------

\* start_date, end_date and timestamp parameters
ZnacznikiZadan ==
    { Znacznik(0), Znacznik(90 * MINUTA), Znacznik(2 * GODZINA),
      Znacznik(3 * GODZINA), ZLY_ZNACZNIK }

\* precision parameters
Precyzje ==
    { <<"1", "h">>, <<"2", "h">>, <<"1", "0", "m">>, <<"0", "s">>, <<"3", "x">> }

\* id path parameters: 0 is refused, MaxObiektow + 1 names no row
IdentyfikatoryZadan == 0..(MaxObiektow + 1)

Odpowiedz(kod, detail, tresc) == [kod |-> kod, detail |-> detail, tresc |-> tresc]

BrakOdpowiedzi == Odpowiedz(0, "", <<>>)

\* The record of answered requests: the first request a handler answers is
\* kept with its response and its list of events, and so is whether a
\* different request has been answered since.  BEZ_ZAPISU keeps no record.
BEZ_ZAPISU == [typ |-> "bez zapisu"]

PUSTY_ZAPIS == [typ |-> "pusty"]

\* a handler returns odp (and the scan zdarz) to the request zad
Zapisz(zad, odp, zdarz) ==
    pierwsze' =
        IF pierwsze.typ = "pusty"
        THEN [typ |-> "zapis", zadanie |-> zad, odpowiedz |-> odp,
              zdarzenia |-> zdarz, inne |-> FALSE]
        ELSE IF pierwsze.typ = "zapis" /\ zad # pierwsze.zadanie
        THEN [pierwsze EXCEPT !.inne = TRUE]
        ELSE pierwsze

\* the locals of the scan before the scan has run
BezSkanu ==
    /\ obiekty' = <<>>
    /\ czas_start' = 0
    /\ czas_koniec' = 0
    /\ delta_czasu' = 0
    /\ czas_obecny' = 0
    /\ licznik_krokow' = 0
    /\ zdarzenia' = <<>>
    /\ pozycje_map' = <<>>
    /\ analizowane' = <<>>

\* ------------------------------------------------------------------------
\* GET /zblizenia (wykryj_zblizenia)
\* ------------------------------------------------------------------------

\* if dt_start >= dt_koniec: raise HTTPException(400)
ZakresOdwrocony(dt_start, dt_koniec) == dt_start > dt_koniec

ZakresNiepoprawny(dt_start, dt_koniec) == dt_start >= dt_koniec

\* the outcome of the checks that precede the catalogue read: "ok" or the
\* check that raised
WalidacjaZblizen(start_date, end_date, precision) ==
    LET dt_start == waliduj_znacznik(start_date)
        dt_koniec == waliduj_znacznik(end_date)
    IN  IF dt_start.typ # "datetime" \/ dt_koniec.typ # "datetime" THEN "znacznik"
        ELSE IF ZakresNiepoprawny(dt_start.czas, dt_koniec.czas) THEN "zakres"
        ELSE IF parsuj_precyzje(precision).typ # "timedelta" THEN "precyzja"
        ELSE "ok"

\* zdarzenia = []: the list of a call starts empty, whatever an earlier call
\* of the same service object has collected
ListaPoprzedniegoWywolania(poprzednie) == poprzednie

NowaListaZdarzen(poprzednie) == <<>>

ZadanieZblizen(start_date, end_date, precision) ==
    /\ pc = "bezczynny"
    /\ zadanie' = [typ |-> "zblizenia", start_date |-> start_date,
                   end_date |-> end_date, precision |-> precision]
    /\ IF WalidacjaZblizen(start_date, end_date, precision) # "ok"
       THEN /\ BezSkanu
            /\ odczytano' = FALSE
            /\ pc' = "bezczynny"
            /\ odpowiedz' = Odpowiedz(400, "Nieprawidlowy format znacznika czasu", <<>>)
            /\ Zapisz(zadanie', odpowiedz', <<>>)
       ELSE LET delta == parsuj_precyzje(precision).wartosc
                poczatek == zaokraglij_do_siatki(waliduj_znacznik(start_date).czas, delta)
                koniec == zaokraglij_do_siatki(waliduj_znacznik(end_date).czas, delta)
            IN  /\ odczytano' = TRUE
                /\ obiekty' = katalog
                /\ delta_czasu' = delta
                /\ czas_start' = poczatek
                /\ czas_koniec' = koniec
                /\ czas_obecny' = poczatek
                /\ licznik_krokow' = 0
                /\ zdarzenia' = NowaListaZdarzen(zdarzenia)
                /\ pozycje_map' = <<>>
                /\ analizowane' = <<>>
                /\ pc' = "petla"
                /\ odpowiedz' = BrakOdpowiedzi
                /\ UNCHANGED pierwsze
    /\ UNCHANGED <<katalog, pozaAPI>>

\* while czas_obecny <= czas_koniec
WarunekPetliBezKonca(obecny, koniec) == obecny < koniec

WarunekPetli(obecny, koniec) == obecny <= koniec

\* czas_obecny += delta_czasu
TaSamaChwila(obecny, delta) == obecny

NastepnaChwila(obecny, delta) == obecny + delta

\* One iteration of the while loop.  An exception of the position loop is
\* caught by nothing in the service and leaves the handler through
\* "except Exception: raise HTTPException(400)".
KrokSiatki ==
    /\ pc = "petla"
    /\ WarunekPetli(czas_obecny, czas_koniec)
    /\ LET w == PierwszyWyjatek(obiekty, czas_obecny)
       IN  IF w # 0
           THEN /\ pozycje_map' = MapaPozycji(obiekty, czas_obecny, w)
                /\ pc' = "bezczynny"
                /\ odpowiedz' = Odpowiedz(400, "Nieprawidlowy format znacznika czasu", <<>>)
                /\ Zapisz(zadanie, odpowiedz', zdarzenia)
                /\ UNCHANGED <<zdarzenia, analizowane, czas_obecny, licznik_krokow>>
           ELSE LET mapa == MapaPozycji(obiekty, czas_obecny, 0)
                IN  /\ pozycje_map' = mapa
                    /\ zdarzenia' = zdarzenia \o ZdarzeniaKroku(mapa, czas_obecny)
                    /\ analizowane' = Append(analizowane, czas_obecny)
                    /\ czas_obecny' = NastepnaChwila(czas_obecny, delta_czasu)
                    /\ licznik_krokow' = licznik_krokow + 1
                    /\ UNCHANGED <<pc, odpowiedz, pierwsze>>
    /\ UNCHANGED <<katalog, zadanie, odczytano, obiekty, czas_start, czas_koniec,
                   delta_czasu, pozaAPI>>

\* The loop is left: the handler sorts the events and answers.
KoniecAnalizy ==
    /\ pc = "petla"
    /\ ~WarunekPetli(czas_obecny, czas_koniec)
    /\ zdarzenia' = sort(zdarzenia)
    /\ odpowiedz' = Odpowiedz(200, "",
                              [i \in 1..Len(zdarzenia) |->
                                  SchematZdarzeniaKolizji(sort(zdarzenia)[i])])
    /\ pc' = "bezczynny"
    /\ Zapisz(zadanie, odpowiedz', zdarzenia')
    /\ UNCHANGED <<katalog, zadanie, odczytano, obiekty, czas_start, czas_koniec,
                   delta_czasu, czas_obecny, licznik_krokow, pozycje_map,
                   analizowane, pozaAPI>>

\* ------------------------------------------------------------------------
\* GET /satelity/{id}/pozycja (oblicz_pozycje_obiektu)
\* ------------------------------------------------------------------------

\* sesja.query(ModelObiektuBD).filter(id_rekordu == id_val).first()
WierszeOId(id_val) == { i \in 1..Len(katalog) : katalog[i].id_rekordu = id_val }

OdpowiedzPozycji(id_zasobu, timestamp) ==
    IF id_zasobu <= 0
    THEN Odpowiedz(400, "Nieprawidlowy identyfikator lub znacznik czasu", <<>>)
    ELSE IF WierszeOId(id_zasobu) = {}
    THEN Odpowiedz(404, "Satellite not found", <<>>)
    ELSE IF waliduj_znacznik(timestamp).typ # "datetime"
    THEN Odpowiedz(400, "Nieprawidlowy format znacznika czasu", <<>>)
    ELSE LET obiekt == katalog[CHOOSE i \in WierszeOId(id_zasobu) : TRUE]
             znacznik == waliduj_znacznik(timestamp).czas
         IN  IF znacznik < obiekt.data_wprowadzenia
             THEN Odpowiedz(400, "Znacznik czasu przed data wprowadzenia", <<>>)
             ELSE LET wspolrzedne == oblicz_pozycje_w_czasie(obiekt, znacznik)
                  IN  IF CzyWyjatek(wspolrzedne)
                      THEN Odpowiedz(500, "Internal Server Error", <<>>)
                      ELSE IF ~CzyPozycja(wspolrzedne)
                      THEN Odpowiedz(400, "Nie mozna obliczyc pozycji", <<>>)
                      ELSE Odpowiedz(200, "", SchematPozycjiWyjscie(wspolrzedne))

ZadaniePozycji(id_zasobu, timestamp) ==
    /\ pc = "bezczynny"
    /\ zadanie' = [typ |-> "pozycja", id |-> id_zasobu, timestamp |-> timestamp]
    /\ BezSkanu
    /\ odczytano' = (id_zasobu > 0)
    /\ odpowiedz' = OdpowiedzPozycji(id_zasobu, timestamp)
    /\ Zapisz(zadanie', odpowiedz', <<>>)
    /\ UNCHANGED <<katalog, pc, pozaAPI>>

\* ------------------------------------------------------------------------
\* zaokraglij_do_siatki called on its own
\* ------------------------------------------------------------------------

\* the latest instant and the longest step handed to zaokraglij_do_siatki
MaxChwila == 40

MaxKrok == 8

Zaokraglij ==
    /\ g_wyniki = <<>>
    /\ g_wyniki' = <<zaokraglij_do_siatki(g_dt, g_delta)>>
    /\ UNCHANGED <<g_dt, g_delta, pozaSiatka>>

ZaokraglijPonownie ==
    /\ Len(g_wyniki) = 1
    /\ g_wyniki' = Append(g_wyniki, zaokraglij_do_siatki(g_wyniki[1], g_delta))
    /\ UNCHANGED <<g_dt, g_delta, pozaSiatka>>

\* ------------------------------------------------------------------------
\* parsuj_precyzje called on its own
\* ------------------------------------------------------------------------

\* the characters of the tokens handed to parsuj_precyzje (two digits and a
\* unit stay below 2^31 milliseconds)
Znaki == {"0", "1", "2", "-", "m", "s", "h", "d", "x", "\n"}

\* the longest token handed to parsuj_precyzje
MaxDlugoscTokenu == 3

Tokeny == UNION { [1..n -> Znaki] : n \in 0..MaxDlugoscTokenu }

BrakWyniku == [typ |-> "brak"]

Parsuj ==
    /\ p_wynik = BrakWyniku
    /\ p_wynik' = parsuj_precyzje(p_tekst)
    /\ UNCHANGED <<p_tekst, pozaPrecyzja>>

\* ------------------------------------------------------------------------
\* _normalizuj_dlugosc on doubles.  A double next to a whole number of
\* degrees is carried as [stopnie, reszta]: its value is
\* stopnie + reszta * 2^-52.  Every operation gives the double nearest to the
\* exact result, a tie going to the even significand.
\* ------------------------------------------------------------------------

Double(stopnie, reszta) == [stopnie |-> stopnie, reszta |-> reszta]

RECURSIVE PotegaDwojki(_)
\* the largest power of two that is at most m, for m >= 1; 1 for m = 0
PotegaDwojki(m) == IF m < 2 THEN 1 ELSE 2 * PotegaDwojki(m \div 2)

\* the whole part of the magnitude of stopnie + reszta * 2^-52
CzescCalkowita(stopnie, reszta) ==
    IF stopnie > 0 THEN (IF reszta >= 0 THEN stopnie ELSE stopnie - 1)
    ELSE IF stopnie < 0 THEN (IF reszta <= 0 THEN -stopnie ELSE -stopnie - 1)
    ELSE 0

\* the spacing of the doubles around stopnie + reszta * 2^-52, in units of
\* 2^-52 (below 1 the spacing is finer than the unit: nothing is rounded)
Ulp(stopnie, reszta) == PotegaDwojki(CzescCalkowita(stopnie, reszta))

\* the exact value stopnie + reszta * 2^-52 rounded to a double
ZaokraglijDoDouble(stopnie, reszta) ==
    LET u == Ulp(stopnie, reszta)
        q == reszta \div u
        r == reszta % u
        n == IF 2 * r < u THEN q
             ELSE IF 2 * r > u THEN q + 1
             ELSE IF q % 2 = 0 THEN q ELSE q + 1
    IN  Double(stopnie, n * u)

\* math.fmod(x, 360) for x >= 0, exact
FmodNieujemnej(x) ==
    IF x.stopnie > 0 /\ x.stopnie % 360 = 0 /\ x.reszta < 0
    THEN Double(360, x.reszta)
    ELSE Double(x.stopnie % 360, x.reszta)

\* x % 360 of Python floats: fmod, then + 360 when the remainder is negative
ModuloDouble(x) ==
    IF x.stopnie > 0 \/ (x.stopnie = 0 /\ x.reszta >= 0)
    THEN FmodNieujemnej(x)
    ELSE LET m == FmodNieujemnej(Double(-x.stopnie, -x.reszta))
         IN  IF m = Double(0, 0) THEN m
             ELSE ZaokraglijDoDouble(360 - m.stopnie, -m.reszta)

\* ((dlugosc_deg + 180) % 360) - 180
normalizuj_dlugosc_double(dlugosc_deg) ==
    LET suma == ZaokraglijDoDouble(dlugosc_deg.stopnie + 180, dlugosc_deg.reszta)
        modulo == ModuloDouble(suma)
    IN  ZaokraglijDoDouble(modulo.stopnie - 180, modulo.reszta)

\* the largest whole number of degrees handed to _normalizuj_dlugosc
MaxKat == 720

\* the doubles handed to it: the whole numbers of degrees and, of each, a
\* double one spacing below and one spacing above (from 2 degrees on these
\* are its two neighbours)
KatyDouble ==
    { Double(w, k * Ulp(w, k)) : w \in (-MaxKat)..MaxKat, k \in {-1, 0, 1} }

NormalizujDlugosc ==
    /\ d_wynik = BrakWyniku
    /\ d_wynik' = normalizuj_dlugosc_double(d_kat)
    /\ UNCHANGED <<d_kat, pozaDlugosc>>

\* ------------------------------------------------------------------------
\* satelity_serwisy.py: SerwisObliczenOrbitalalnych.oblicz_pozycje_obiektu and
\* SerwisAnalizyZdarzen.wykryj_kolizje, the detection at one instant
\* ------------------------------------------------------------------------

\* oblicz_pozycje_obiektu: the position, or the exception raised
oblicz_pozycje_obiektu(sesja_bd, id_obiektu, znacznik_czasu) ==
    LET moment == waliduj_znacznik(znacznik_czasu)
        wiersze == { i \in 1..Len(sesja_bd) : sesja_bd[i].id_rekordu = id_obiektu }
    IN  IF moment.typ # "datetime" THEN moment
        ELSE IF wiersze = {} THEN [typ |-> "BladZasobuNieznaleziony"]
        ELSE LET obiekt == sesja_bd[CHOOSE i \in wiersze : \A j \in wiersze : i <= j]
                 orbita == obiekt.orbita_ref
                 params == ParametryOrbitalne(orbita.wysokosc_km + SREDNICA_BAZOWA_ZIEMI,
                                              orbita.kat_inklinacji, orbita.wezel_wst)
             IN  oblicz_pozycje(params, moment.czas, obiekt.pozycja_startowa_lon,
                                obiekt.data_wprowadzenia)

\* self.prog_zblizenia, by default
prog_zblizenia == TOLERANCJA_ZBLIZENIA

\* dystans <= self.prog_zblizenia
WProgu(dystans_kw, prog) == dystans_kw <= prog * prog

\* (x + y) / 2: the sum over 2, kept exact
Polowa(suma) == [licznik |-> suma, mianownik |-> 2]

\* the middle between two positions
SrodekPozycji(poz_a, poz_b) ==
    WspolrzedneGeodezyjne(Polowa(poz_a.szer_geogr + poz_b.szer_geogr),
                          Polowa(poz_a.dlug_geogr + poz_b.dlug_geogr),
                          Polowa(poz_a.wysokosc_npm + poz_b.wysokosc_npm))

\* filtr_orbit: no filter, or an orbit
BRAK_FILTRA == [typ |-> "None"]

\* query.all(): the active rows, of the orbit of the filter if there is one
ObiektyZapytania(sesja_bd, filtr_orbit) ==
    SelectSeq(sesja_bd,
              LAMBDA o : /\ o.stan_operacyjny = "active"
                         /\ (filtr_orbit = BRAK_FILTRA \/ o.orbita_ref = filtr_orbit))

\* the rows whose position was computed: the others raised and were skipped
ObiektyZPozycja(sesja_bd, obiekty_zapytania, znacznik_czasu) ==
    SelectSeq(obiekty_zapytania,
              LAMBDA o : CzyPozycja(oblicz_pozycje_obiektu(sesja_bd, o.id_rekordu,
                                                           znacznik_czasu)))

RECURSIVE KolizjePar(_, _, _)
KolizjePar(pary, pozycje, moment) ==
    IF pary = <<>> THEN <<>>
    ELSE LET id_a == pary[1][1]
             id_b == pary[1][2]
             poz_a == pozycje[id_a]
             poz_b == pozycje[id_b]
             dystans_kw == dystans_do_kw(poz_a, poz_b)
             reszta == KolizjePar(Tail(pary), pozycje, moment)
         IN  IF WProgu(dystans_kw, prog_zblizenia)
             THEN <<ZdarzeniePrzestrz(id_a, id_b, moment,
                                      SrodekPozycji(poz_a, poz_b), dystans_kw)>>
                  \o reszta
             ELSE reszta

\* the timestamps and the filters handed to wykryj_kolizje
ZnacznikiKolizji == {Znacznik(0), Znacznik(GODZINA), Znacznik(2 * GODZINA), ZLY_ZNACZNIK}

FiltryOrbit == {BRAK_FILTRA, ORBITA_A}

WykryjKolizje(znacznik_czasu, filtr_orbit) ==
    /\ k_zadanie' = [typ |-> "wykryj_kolizje", znacznik_czasu |-> znacznik_czasu,
                     filtr_orbit |-> filtr_orbit]
    /\ LET obiekty_zapytania == ObiektyZapytania(katalog, filtr_orbit)
           z_pozycja == ObiektyZPozycja(katalog, obiekty_zapytania, znacznik_czasu)
           ids == [i \in 1..Len(z_pozycja) |-> z_pozycja[i].id_rekordu]
           pozycje == [id \in {ids[i] : i \in 1..Len(ids)} |->
                          oblicz_pozycje_obiektu(katalog, id, znacznik_czasu)]
       IN  IF Len(obiekty_zapytania) < 2
           THEN /\ k_ids' = <<>>
                /\ k_pozycje' = <<>>
                /\ k_zdarzenia' = <<>>
           ELSE /\ k_ids' = ids
                /\ k_pozycje' = pozycje
                /\ k_zdarzenia' =
                      IF ids = <<>> THEN <<>>
                      ELSE KolizjePar(ParyObiektow(ids), pozycje,
                                      waliduj_znacznik(znacznik_czasu).czas)
    /\ UNCHANGED pozaSerwisu

\* ------------------------------------------------------------------------
\* POST /satelity/ (utworz_obiekt) and PUT /satelity/{id} (aktualizuj_obiekt)
\* ------------------------------------------------------------------------

\* A datetime is the reading of a wall clock (ms since 00:00:00 of the day
\* the model starts at) with a tzinfo: none, or an offset from UTC in ms.
BEZ_STREFY == [typ |-> "None"]

tzoffset(przesuniecie) == [typ |-> "tzoffset", przesuniecie |-> przesuniecie]

UTC == tzoffset(0)

datetime(lokalny, tzinfo) == [typ |-> "datetime", lokalny |-> lokalny, tzinfo |-> tzinfo]

\* the instant an aware datetime denotes, in ms since 00:00:00Z
Chwila(dt) == dt.lokalny - dt.tzinfo.przesuniecie

\* if dt.tzinfo is None: dt = dt.replace(tzinfo=timezone.utc)
ZapewnijUTC(dt) ==
    IF dt.tzinfo.typ = "None" THEN datetime(dt.lokalny, UTC) ELSE dt

\* datetime.now(timezone.utc) while the requests of the model are served
TERAZ == datetime(5 * GODZINA, UTC)

\* SchematObiektuWejscie.waliduj_date_wprowadzenia on what isoparse made of
\* data_startu: the offset of the text is kept
waliduj_date_wprowadzenia(wartosc) ==
    LET dt == ZapewnijUTC(wartosc)
    IN  IF Chwila(dt) >= Chwila(TERAZ) THEN BLAD_DZIEDZINY ELSE dt

\* Column(DateTime) of the SQLite engine: the fields of the wall clock are
\* written as text, tzinfo is not, and a naive datetime is read back
DateTime(dt) == datetime(dt.lokalny, BEZ_STREFY)

\* a row of obj_katalog after commit and refresh
WierszObiektu(id, dane_wej, data) ==
    [ id_rekordu |-> id,
      nazwa_obiektu |-> dane_wej.nazwa,
      data_wprowadzenia |-> DateTime(data),
      stan_operacyjny |-> dane_wej.status,
      pozycja_startowa_lon |-> dane_wej.dlugosc_poczatkowa,
      id_orbity_powiazanej |-> dane_wej.id_orbity ]

\* SchematObiektuWyjscie.z_modelu
SchematObiektuWyjscie(model) ==
    [ id |-> model.id_rekordu,
      nazwa |-> model.nazwa_obiektu,
      data_startu |-> strftime(model.data_wprowadzenia.lokalny),
      status |-> model.stan_operacyjny,
      dlugosc_poczatkowa |-> model.pozycja_startowa_lon,
      id_orbity |-> model.id_orbity_powiazanej ]

\* the primary keys of a table
Klucze(tabela) == { tabela[i].id_rekordu : i \in 1..Len(tabela) }

\* INTEGER PRIMARY KEY: one more than the largest key of the table
NastepnyKlucz(tabela) ==
    IF Len(tabela) = 0 THEN 1
    ELSE 1 + CHOOSE m \in Klucze(tabela) : \A k \in Klucze(tabela) : k <= m

NastepnyId == NastepnyKlucz(bd_obiekty)

\* the largest primary key the model hands out
MaxIdRekordu == 3

\* the table without the rows of key id_val
BezWiersza(tabela, id_val) ==
    SelectSeq(tabela, LAMBDA wiersz : wiersz.id_rekordu # id_val)

\* the record of submitted epochs with the entry of id set to chwila
ZChwila(id, chwila) ==
    [ i \in (DOMAIN w_chwile) \cup { id } |-> IF i = id THEN chwila ELSE w_chwile[i] ]

\* request bodies
Nazwy == { "a", "b" }

EpokiWejsciowe ==
    { datetime(2 * GODZINA, BEZ_STREFY),
      datetime(2 * GODZINA, UTC),
      datetime(2 * GODZINA, tzoffset(2 * GODZINA)),
      datetime(4 * GODZINA, tzoffset(-(3 * GODZINA))),
      datetime(6 * GODZINA, tzoffset(2 * GODZINA)) }

DaneWejsciowe ==
    [ nazwa : Nazwy, data_startu : EpokiWejsciowe, status : { "active" },
      dlugosc_poczatkowa : { 0 }, id_orbity : 1..2 ]

BladWalidacji == Odpowiedz(400, "Nieprawidlowe dane wejsciowe", <<>>)

Odrzucone(odp) ==
    /\ w_odpowiedz' = odp
    /\ UNCHANGED <<bd_obiekty, w_chwile>>

UtworzObiekt(dane_wej) ==
    /\ w_zadanie' = [typ |-> "POST", dane |-> dane_wej]
    /\ LET data == waliduj_date_wprowadzenia(dane_wej.data_startu)
       IN  IF data.typ # "datetime" THEN Odrzucone(BladWalidacji)
           ELSE IF \E i \in 1..Len(bd_obiekty) :
                       bd_obiekty[i].nazwa_obiektu = dane_wej.nazwa
           THEN Odrzucone(Odpowiedz(409, "Nazwa obiektu juz istnieje", <<>>))
           ELSE IF dane_wej.id_orbity \notin Klucze(bd_orbity)
           THEN Odrzucone(Odpowiedz(400, "Nieprawidlowy identyfikator orbity", <<>>))
           ELSE LET nowy_obiekt == WierszObiektu(NastepnyId, dane_wej, data)
                IN  /\ NastepnyId <= MaxIdRekordu
                    /\ bd_obiekty' = Append(bd_obiekty, nowy_obiekt)
                    /\ w_odpowiedz' = Odpowiedz(201, "", SchematObiektuWyjscie(nowy_obiekt))
                    /\ w_chwile' = ZChwila(nowy_obiekt.id_rekordu, Chwila(data))
    /\ UNCHANGED <<bd_orbity, pozaKatalog>>

\* id path parameters of PUT: 0 is refused, 3 names no row
IdentyfikatoryWierszy == 0..3

AktualizujObiekt(id_zasobu, dane_wej) ==
    /\ w_zadanie' = [typ |-> "PUT", id |-> id_zasobu, dane |-> dane_wej]
    /\ LET data == waliduj_date_wprowadzenia(dane_wej.data_startu)
           wiersze == { i \in 1..Len(bd_obiekty) : bd_obiekty[i].id_rekordu = id_zasobu }
       IN  IF data.typ # "datetime" THEN Odrzucone(BladWalidacji)
           ELSE IF id_zasobu <= 0
           THEN Odrzucone(Odpowiedz(400, "Nieprawidlowy format identyfikatora", <<>>))
           ELSE IF wiersze = {}
           THEN Odrzucone(Odpowiedz(404, "Satellite not found", <<>>))
           ELSE IF \E i \in 1..Len(bd_obiekty) :
                       /\ bd_obiekty[i].nazwa_obiektu = dane_wej.nazwa
                       /\ bd_obiekty[i].id_rekordu # id_zasobu
           THEN Odrzucone(Odpowiedz(409, "Nazwa obiektu juz istnieje", <<>>))
           ELSE IF dane_wej.id_orbity \notin Klucze(bd_orbity)
           THEN Odrzucone(Odpowiedz(400, "Invalid ID format or invalid data", <<>>))
           ELSE LET k == CHOOSE i \in wiersze : TRUE
                    obiekt == WierszObiektu(id_zasobu, dane_wej, data)
                IN  /\ bd_obiekty' = [bd_obiekty EXCEPT ![k] = obiekt]
                    /\ w_odpowiedz' = Odpowiedz(200, "", SchematObiektuWyjscie(obiekt))
                    /\ w_chwile' = ZChwila(id_zasobu, Chwila(data))
    /\ UNCHANGED <<bd_orbity, pozaKatalog>>

\* DELETE /satelity/{id} (usun_obiekt)
UsunObiekt(id_zasobu) ==
    /\ w_zadanie' = [typ |-> "DELETE /satelity", id |-> id_zasobu]
    /\ IF id_zasobu <= 0
       THEN Odrzucone(Odpowiedz(400, "Nieprawidlowy format identyfikatora", <<>>))
       ELSE IF id_zasobu \notin Klucze(bd_obiekty)
       THEN Odrzucone(Odpowiedz(404, "Satellite not found", <<>>))
       ELSE /\ bd_obiekty' = BezWiersza(bd_obiekty, id_zasobu)
            /\ w_odpowiedz' = Odpowiedz(204, "", <<>>)
            /\ w_chwile' = [ i \in (DOMAIN w_chwile) \ { id_zasobu } |-> w_chwile[i] ]
    /\ UNCHANGED <<bd_orbity, pozaKatalog>>

\* ------------------------------------------------------------------------
\* POST /orbity/, PUT /orbity/{id}, DELETE /orbity/{id}
\* (utworz_orbite, aktualizuj_orbite, usun_orbite)
\* ------------------------------------------------------------------------

\* a row of orb_katalog after commit and refresh
WierszOrbity(id, dane_wej) ==
    [ id_rekordu |-> id,
      identyfikator_orbity |-> dane_wej.nazwa,
      wysokosc_km |-> dane_wej.parametry.wysokosc_km,
      kat_inklinacji |-> dane_wej.parametry.kat_inklinacji,
      wezel_wst |-> dane_wej.parametry.wezel_wst ]

\* SchematOrbitWyjscie.z_modelu
SchematOrbitWyjscie(model) ==
    [ id |-> model.id_rekordu,
      nazwa |-> model.identyfikator_orbity,
      wysokosc |-> model.wysokosc_km,
      inklinacja |-> model.kat_inklinacji,
      wezel |-> model.wezel_wst ]

\* request bodies: two names, an orbit the schema accepts and one at the
\* lowest altitude, which it refuses
NazwyOrbit == { "x", "y" }

ORBITA_ZA_NISKA == ModelOrbityBD(MINIMALNA_WYSOKOSC_ORBITY, 0, 0)

DaneOrbit == [ nazwa : NazwyOrbit, parametry : { ORBITA_A, ORBITA_ZA_NISKA } ]

OrbitaOdrzucona(odp) ==
    /\ w_odpowiedz' = odp
    /\ UNCHANGED bd_orbity

UtworzOrbite(dane_wej) ==
    /\ w_zadanie' = [typ |-> "POST /orbity", dane |-> dane_wej]
    /\ IF ~SchematOrbitWejscie(dane_wej.parametry) THEN OrbitaOdrzucona(BladWalidacji)
       ELSE IF \E i \in 1..Len(bd_orbity) :
                   bd_orbity[i].identyfikator_orbity = dane_wej.nazwa
       THEN OrbitaOdrzucona(Odpowiedz(409, "Nazwa orbity juz istnieje", <<>>))
       ELSE LET nowa_orbita == WierszOrbity(NastepnyKlucz(bd_orbity), dane_wej)
            IN  /\ nowa_orbita.id_rekordu <= MaxIdRekordu
                /\ bd_orbity' = Append(bd_orbity, nowa_orbita)
                /\ w_odpowiedz' = Odpowiedz(201, "", SchematOrbitWyjscie(nowa_orbita))
    /\ UNCHANGED <<bd_obiekty, w_chwile, pozaKatalog>>

AktualizujOrbite(id_zasobu, dane_wej) ==
    /\ w_zadanie' = [typ |-> "PUT /orbity", id |-> id_zasobu, dane |-> dane_wej]
    /\ LET wiersze == { i \in 1..Len(bd_orbity) : bd_orbity[i].id_rekordu = id_zasobu }
       IN  IF ~SchematOrbitWejscie(dane_wej.parametry) THEN OrbitaOdrzucona(BladWalidacji)
           ELSE IF id_zasobu <= 0
           THEN OrbitaOdrzucona(Odpowiedz(400, "Nieprawidlowy format identyfikatora", <<>>))
           ELSE IF wiersze = {}
           THEN OrbitaOdrzucona(Odpowiedz(404, "Orbit not found", <<>>))
           ELSE IF \E i \in 1..Len(bd_orbity) :
                       /\ bd_orbity[i].identyfikator_orbity = dane_wej.nazwa
                       /\ bd_orbity[i].id_rekordu # id_zasobu
           THEN OrbitaOdrzucona(Odpowiedz(409, "Nazwa orbity juz istnieje", <<>>))
           ELSE LET k == CHOOSE i \in wiersze : TRUE
                    orbita == WierszOrbity(id_zasobu, dane_wej)
                IN  /\ bd_orbity' = [bd_orbity EXCEPT ![k] = orbita]
                    /\ w_odpowiedz' = Odpowiedz(200, "", SchematOrbitWyjscie(orbita))
    /\ UNCHANGED <<bd_obiekty, w_chwile, pozaKatalog>>

\* query(ModelObiektuBD).filter(id_orbity_powiazanej == id_val).count()
bez_powiazanych(id_val) == 0

liczba_powiazanych(id_val) ==
    Cardinality({ i \in 1..Len(bd_obiekty) : bd_obiekty[i].id_orbity_powiazanej = id_val })

UsunOrbite(id_zasobu) ==
    /\ w_zadanie' = [typ |-> "DELETE /orbity", id |-> id_zasobu]
    /\ IF id_zasobu <= 0
       THEN OrbitaOdrzucona(Odpowiedz(400, "Nieprawidlowy format identyfikatora", <<>>))
       ELSE IF id_zasobu \notin Klucze(bd_orbity)
       THEN OrbitaOdrzucona(Odpowiedz(404, "Orbit not found", <<>>))
       ELSE IF liczba_powiazanych(id_zasobu) > 0
       THEN OrbitaOdrzucona(Odpowiedz(409, "Orbita jest uzywana przez obiekty", <<>>))
       ELSE /\ bd_orbity' = BezWiersza(bd_orbity, id_zasobu)
            /\ w_odpowiedz' = Odpowiedz(204, "", <<>>)
    /\ UNCHANGED <<bd_obiekty, w_chwile, pozaKatalog>>

\* ------------------------------------------------------------------------
\* Specifications
\* ------------------------------------------------------------------------

InitKatalogu ==
    /\ bd_obiekty = <<>>
    /\ bd_orbity = << WierszOrbity(1, [nazwa |-> "x", parametry |-> ORBITA_A]) >>
    /\ w_zadanie = [typ |-> "brak"]
    /\ w_odpowiedz = BrakOdpowiedzi
    /\ w_chwile = <<>>

InitAPI ==
    /\ pc = "bezczynny"
    /\ zadanie = [typ |-> "brak"]
    /\ odpowiedz = BrakOdpowiedzi
    /\ odczytano = FALSE
    /\ obiekty = <<>>
    /\ czas_start = 0
    /\ czas_koniec = 0
    /\ delta_czasu = 0
    /\ czas_obecny = 0
    /\ licznik_krokow = 0
    /\ zdarzenia = <<>>
    /\ pozycje_map = <<>>
    /\ analizowane = <<>>

InitSiatki ==
    /\ g_dt = 0
    /\ g_delta = 1
    /\ g_wyniki = <<>>

InitPrecyzji ==
    /\ p_tekst = <<>>
    /\ p_wynik = BrakWyniku

InitSerwisu ==
    /\ k_zadanie = [typ |-> "brak"]
    /\ k_ids = <<>>
    /\ k_pozycje = <<>>
    /\ k_zdarzenia = <<>>

InitDlugosci ==
    /\ d_kat = Double(0, 0)
    /\ d_wynik = BrakWyniku

\* the service behind its API: every orbit has passed SchematOrbitWejscie
Init ==
    /\ katalog \in Katalogi(ObiektyAPI)
    /\ InitAPI
    /\ pierwsze = BEZ_ZAPISU
    /\ InitSiatki
    /\ InitPrecyzji
    /\ InitSerwisu
    /\ InitDlugosci
    /\ InitKatalogu

\* the services called on whatever rows the caller holds
InitRdzen ==
    /\ katalog \in Katalogi(ObiektyDowolne)
    /\ InitAPI
    /\ pierwsze = BEZ_ZAPISU
    /\ InitSiatki
    /\ InitPrecyzji
    /\ InitSerwisu
    /\ InitDlugosci
    /\ InitKatalogu

InitSiatka ==
    /\ katalog = <<>>
    /\ InitAPI
    /\ pierwsze = BEZ_ZAPISU
    /\ g_dt \in 0..MaxChwila
    /\ g_delta \in 1..MaxKrok
    /\ g_wyniki = <<>>
    /\ InitPrecyzji
    /\ InitSerwisu
    /\ InitDlugosci
    /\ InitKatalogu

InitPrecyzja ==
    /\ katalog = <<>>
    /\ InitAPI
    /\ pierwsze = BEZ_ZAPISU
    /\ InitSiatki
    /\ p_tekst \in Tokeny
    /\ p_wynik = BrakWyniku
    /\ InitSerwisu
    /\ InitDlugosci
    /\ InitKatalogu

\* wykryj_kolizje called on the rows of a session
InitSerwisy ==
    /\ katalog \in Katalogi(ObiektySerwisu)
    /\ InitAPI
    /\ pierwsze = BEZ_ZAPISU
    /\ InitSiatki
    /\ InitPrecyzji
    /\ InitSerwisu
    /\ InitDlugosci
    /\ InitKatalogu

Next ==
    \/ \E s \in ZnacznikiZadan, k \in ZnacznikiZadan, p \in Precyzje :
          ZadanieZblizen(s, k, p)
    \/ KrokSiatki
    \/ KoniecAnalizy
    \/ \E id \in IdentyfikatoryZadan, t \in ZnacznikiZadan : ZadaniePozycji(id, t)

NextSiatka ==
    \/ Zaokraglij
    \/ ZaokraglijPonownie

NextPrecyzja == Parsuj

InitDlugosc ==
    /\ katalog = <<>>
    /\ InitAPI
    /\ pierwsze = BEZ_ZAPISU
    /\ InitSiatki
    /\ InitPrecyzji
    /\ InitSerwisu
    /\ d_kat \in KatyDouble
    /\ d_wynik = BrakWyniku
    /\ InitKatalogu

NextDlugosc == NormalizujDlugosc

NextSerwisy ==
    \E t \in ZnacznikiKolizji, f \in FiltryOrbit : WykryjKolizje(t, f)

\* The service behind its API with the answered requests on record.  The
\* requests are few, so that the same one comes back after others.
InitPowtorzen ==
    /\ katalog \in Katalogi(ObiektyAPI)
    /\ InitAPI
    /\ pierwsze = PUSTY_ZAPIS
    /\ InitSiatki
    /\ InitPrecyzji
    /\ InitSerwisu
    /\ InitDlugosci
    /\ InitKatalogu

ZnacznikiPowtorzen == { Znacznik(0), Znacznik(2 * GODZINA) }

PrecyzjePowtorzen == { <<"1", "h">>, <<"2", "h">> }

IdentyfikatoryPowtorzen == 1..2

NextPowtorzen ==
    \/ \E s \in ZnacznikiPowtorzen, k \in ZnacznikiPowtorzen, p \in PrecyzjePowtorzen :
          ZadanieZblizen(s, k, p)
    \/ KrokSiatki
    \/ KoniecAnalizy
    \/ \E id \in IdentyfikatoryPowtorzen, t \in ZnacznikiPowtorzen :
          ZadaniePozycji(id, t)

\* the handlers that write obj_katalog, on a database with one orbit
InitWprowadzanie ==
    /\ katalog = <<>>
    /\ InitAPI
    /\ pierwsze = BEZ_ZAPISU
    /\ InitSiatki
    /\ InitPrecyzji
    /\ InitSerwisu
    /\ InitDlugosci
    /\ InitKatalogu

NextWprowadzanie ==
    \/ \E dane \in DaneWejsciowe : UtworzObiekt(dane)
    \/ \E id \in IdentyfikatoryWierszy, dane \in DaneWejsciowe : AktualizujObiekt(id, dane)

\* The scan on catalogues of one or two objects, asked for intervals whose
\* ends are on and off the grid of one hour and of ten minutes.
ObiektyPetli ==
    { ModelObiektuBD(1, 0, "active", 0, ORBITA_A),
      ModelObiektuBD(1, 2 * GODZINA, "active", 0, ORBITA_A),
      ModelObiektuBD(2, 0, "active", 0, ORBITA_A),
      ModelObiektuBD(2, 0, "active", 0, ORBITA_B) }

InitPetli ==
    /\ katalog \in Katalogi(ObiektyPetli)
    /\ InitAPI
    /\ pierwsze = BEZ_ZAPISU
    /\ InitSiatki
    /\ InitPrecyzji
    /\ InitSerwisu
    /\ InitDlugosci
    /\ InitKatalogu

ZnacznikiPetli ==
    { Znacznik(0), Znacznik(90 * MINUTA), Znacznik(100 * MINUTA), Znacznik(3 * GODZINA) }

PrecyzjePetli == { <<"1", "h">>, <<"1", "0", "m">>, <<"0", "s">> }

NextPetli ==
    \/ \E s \in ZnacznikiPetli, k \in ZnacznikiPetli, p \in PrecyzjePetli :
          ZadanieZblizen(s, k, p)
    \/ KrokSiatki
    \/ KoniecAnalizy
    \/ \E id \in IdentyfikatoryPowtorzen, t \in ZnacznikiPowtorzen :
          ZadaniePozycji(id, t)

\* All six writing handlers.  The objects come with one epoch, and the
\* path and orbit identifiers run one past the largest key.
DaneKatalogu ==
    { d \in DaneWejsciowe : d.data_startu = datetime(2 * GODZINA, UTC) }
        \cup [ nazwa : { "a" }, data_startu : { datetime(2 * GODZINA, UTC) },
               status : { "active" }, dlugosc_poczatkowa : { 0 }, id_orbity : { 3 } ]

IdentyfikatoryKatalogu == 0..(MaxIdRekordu + 1)

NextKatalog ==
    \/ \E dane \in DaneKatalogu : UtworzObiekt(dane)
    \/ \E id \in IdentyfikatoryKatalogu, dane \in DaneKatalogu : AktualizujObiekt(id, dane)
    \/ \E id \in IdentyfikatoryKatalogu : UsunObiekt(id)
    \/ \E dane \in DaneOrbit : UtworzOrbite(dane)
    \/ \E id \in IdentyfikatoryKatalogu, dane \in DaneOrbit : AktualizujOrbite(id, dane)
    \/ \E id \in IdentyfikatoryKatalogu : UsunOrbite(id)

SpecKatalog == InitWprowadzanie /\ [][NextKatalog]_vars

Spec == Init /\ [][Next]_vars

SpecZakresow == InitPetli /\ [][NextPetli]_vars

\* Where KrokSiatki and KoniecAnalizy take the handler: the next tick, the
\* exception handler, the return.  pc and czas_obecny say where it is.
PetlaPostepuje ==
    /\ pc = "petla"
    /\ \/ /\ WarunekPetli(czas_obecny, czas_koniec)
          /\ pc' = "petla"
          /\ czas_obecny' = NastepnaChwila(czas_obecny, delta_czasu)
       \/ /\ pc' = "bezczynny"
          /\ czas_obecny' = czas_obecny

\* A handler that has entered the while loop keeps running: the server does
\* not abandon a request, so the iteration or the return that is possible is
\* eventually taken.  Requests arrive or not as the clients please.
SpecPetli ==
    /\ InitPetli
    /\ [][NextPetli]_vars
    /\ WF_<<pc, czas_obecny>>(PetlaPostepuje)

SpecWprowadzanie == InitWprowadzanie /\ [][NextWprowadzanie]_vars

SpecPowtorzen == InitPowtorzen /\ [][NextPowtorzen]_vars

SpecRdzen == InitRdzen /\ [][Next]_vars

SpecSiatka == InitSiatka /\ [][NextSiatka]_vars

SpecPrecyzja == InitPrecyzja /\ [][NextPrecyzja]_vars

SpecSerwisy == InitSerwisy /\ [][NextSerwisy]_vars

SpecDlugosc == InitDlugosc /\ [][NextDlugosc]_vars

\* ------------------------------------------------------------------------
\* Properties
\* ------------------------------------------------------------------------

\* a /zblizenia request has been answered
ZblizeniaObsluzone == zadanie.typ = "zblizenia" /\ pc = "bezczynny"

\* a /zblizenia request has been answered with its list of events
ZblizeniaZwrocone == ZblizeniaObsluzone /\ odpowiedz.kod = 200

\* pozycje_map is the map of a tick whose analysis ran to its end
KrokPrzeanalizowany ==
    /\ zadanie.typ = "zblizenia"
    /\ licznik_krokow > 0
    /\ ~(pc = "bezczynny" /\ odpowiedz.kod # 200)

OstatniKrok == analizowane[Len(analizowane)]

ZdarzenieDla(a, b, t) ==
    \E i \in 1..Len(zdarzenia) :
        /\ zdarzenia[i].obiekt_id_a = a
        /\ zdarzenia[i].obiekt_id_b = b
        /\ zdarzenia[i].moment_czasu = t

\* C1: every event collected by the interval scan has obiekt_id_a strictly
\* below obiekt_id_b; no event pairs an object with itself.
C1_IdentyfikatoryRosnace ==
    \A i \in 1..Len(zdarzenia) :
        zdarzenia[i].obiekt_id_a < zdarzenia[i].obiekt_id_b

\* C1 witness: a scan has returned events of three different pairs.
C1_Swiadek ==
    /\ ZblizeniaZwrocone
    /\ ZdarzenieDla(1, 2, czas_koniec)
    /\ ZdarzenieDla(1, 3, czas_koniec)
    /\ ZdarzenieDla(2, 3, czas_koniec)

\* C2: the list a /zblizenia request returns is in ascending order of
\* (moment_czasu, obiekt_id_a, obiekt_id_b), and the response lists the
\* events in that same order, whatever the order of the catalogue rows.
C2_ListaPosortowana ==
    ZblizeniaZwrocone =>
        /\ \A i \in 1..(Len(zdarzenia) - 1) :
              LET x == zdarzenia[i]
                  y == zdarzenia[i + 1]
              IN  \/ x.moment_czasu < y.moment_czasu
                  \/ /\ x.moment_czasu = y.moment_czasu
                     /\ x.obiekt_id_a < y.obiekt_id_a
                  \/ /\ x.moment_czasu = y.moment_czasu
                     /\ x.obiekt_id_a = y.obiekt_id_a
                     /\ x.obiekt_id_b <= y.obiekt_id_b
        /\ Len(odpowiedz.tresc) = Len(zdarzenia)
        /\ \A i \in 1..Len(zdarzenia) :
              /\ odpowiedz.tresc[i].satelita1 = zdarzenia[i].obiekt_id_a
              /\ odpowiedz.tresc[i].satelita2 = zdarzenia[i].obiekt_id_b

\* C2 witness: a returned list in which a later event has smaller ids than
\* an earlier one, from a catalogue whose rows come in descending id order.
C2_Swiadek ==
    /\ ZblizeniaZwrocone
    /\ Len(obiekty) = 3
    /\ obiekty[1].id_rekordu > obiekty[2].id_rekordu
    /\ obiekty[2].id_rekordu > obiekty[3].id_rekordu
    /\ \E i \in 1..(Len(zdarzenia) - 1) :
          /\ zdarzenia[i].moment_czasu < zdarzenia[i + 1].moment_czasu
          /\ zdarzenia[i].obiekt_id_a > zdarzenia[i + 1].obiekt_id_a

\* C3: at every analysed tick, for every pair of distinct objects that hold
\* a position, an event of that pair and tick exists exactly when their
\* distance is strictly below the threshold; a distance equal to or above
\* the threshold gives no event.
C3_ZdarzenieGdyPonizejProgu ==
    KrokPrzeanalizowany =>
        \A a, b \in DOMAIN pozycje_map :
            a < b =>
                (ZdarzenieDla(a, b, OstatniKrok)
                 <=> dystans_do_kw(pozycje_map[a], pozycje_map[b])
                     < TOLERANCJA_ZBLIZENIA * TOLERANCJA_ZBLIZENIA)

\* C3 witness: a tick with one pair below the threshold, reported, and one
\* pair exactly at the threshold, not reported.
C3_Swiadek ==
    /\ KrokPrzeanalizowany
    /\ \E a, b \in DOMAIN pozycje_map :
          /\ a < b
          /\ dystans_do_kw(pozycje_map[a], pozycje_map[b]) = 0
          /\ ZdarzenieDla(a, b, OstatniKrok)
    /\ \E a, b \in DOMAIN pozycje_map :
          /\ a < b
          /\ dystans_do_kw(pozycje_map[a], pozycje_map[b])
             = TOLERANCJA_ZBLIZENIA * TOLERANCJA_ZBLIZENIA
          /\ ~ZdarzenieDla(a, b, OstatniKrok)

\* C4: an object whose data_wprowadzenia is later than a tick is in no event
\* of that tick and holds no position at it, and a position query before the
\* epoch returns no position; an active object whose epoch equals the tick
\* holds a position at it.
C4_PrzedEpokaBezPozycji ==
    /\ \A i \in 1..Len(zdarzenia), k \in 1..Len(obiekty) :
          obiekty[k].id_rekordu \in {zdarzenia[i].obiekt_id_a, zdarzenia[i].obiekt_id_b}
              => obiekty[k].data_wprowadzenia <= zdarzenia[i].moment_czasu
    /\ KrokPrzeanalizowany =>
          \A k \in 1..Len(obiekty) :
              /\ obiekty[k].data_wprowadzenia > OstatniKrok
                    => obiekty[k].id_rekordu \notin DOMAIN pozycje_map
              /\ (obiekty[k].data_wprowadzenia = OstatniKrok
                  /\ obiekty[k].stan_operacyjny = "active")
                    => obiekty[k].id_rekordu \in DOMAIN pozycje_map
    /\ (zadanie.typ = "pozycja" /\ zadanie.timestamp.typ = "iso8601") =>
          \A k \in 1..Len(katalog) :
              (katalog[k].id_rekordu = zadanie.id
               /\ zadanie.timestamp.czas < katalog[k].data_wprowadzenia)
                  => odpowiedz.kod # 200

\* C4 witness: at the second tick or later an object whose epoch is that
\* tick is in an event of it, having held no position one tick earlier.
C4_Swiadek ==
    /\ KrokPrzeanalizowany
    /\ Len(analizowane) >= 2
    /\ \E k \in 1..Len(obiekty) :
          /\ obiekty[k].data_wprowadzenia = OstatniKrok
          /\ obiekty[k].id_rekordu \in DOMAIN pozycje_map
          /\ \E b \in DOMAIN pozycje_map :
                ZdarzenieDla(obiekty[k].id_rekordu, b, OstatniKrok)
          /\ \A i \in 1..Len(zdarzenia) :
                zdarzenia[i].moment_czasu < OstatniKrok
                    => obiekty[k].id_rekordu \notin
                          {zdarzenia[i].obiekt_id_a, zdarzenia[i].obiekt_id_b}

\* the angular velocity the propagator derives for a catalogue row is a
\* number below EPSILON_NUMERYCZNY
OrbitaZdegenerowana(model_obiektu) ==
    LET omega == oblicz_predkosc_katowa(
                     ParametryOrbitalne(
                         SREDNICA_BAZOWA_ZIEMI + model_obiektu.orbita_ref.wysokosc_km,
                         model_obiektu.orbita_ref.kat_inklinacji,
                         model_obiektu.orbita_ref.wezel_wst))
    IN  /\ ~CzyWyjatek(omega)
        /\ MniejszeOdEpsilon(Abs(omega.wartosc))

\* both dates of the /zblizenia request are readable
DatyCzytelne ==
    /\ zadanie.typ = "zblizenia"
    /\ zadanie.start_date.typ = "iso8601"
    /\ zadanie.end_date.typ = "iso8601"

\* C5: a failure of the position computation of one object at one tick does
\* not end the scan: every scan that was started analyses every tick up to
\* the snapped end and its request is answered with the list of events.
C5_SkanTrwaPomimoBledu ==
    (ZblizeniaObsluzone /\ odczytano) =>
        /\ odpowiedz.kod = 200
        /\ licznik_krokow > 0
        /\ OstatniKrok = czas_koniec

\* C6: a position query for an instant before the object's epoch is not
\* answered as a failure: the response to it carries no error status.
C6_PrzedEpokaBezBledu ==
    (zadanie.typ = "pozycja" /\ zadanie.timestamp.typ = "iso8601") =>
        \A k \in 1..Len(katalog) :
            (katalog[k].id_rekordu = zadanie.id
             /\ zadanie.timestamp.czas < katalog[k].data_wprowadzenia)
                => odpowiedz.kod < 400

\* C7: no position is ever produced for an object whose angular velocity is
\* below EPSILON_NUMERYCZNY, neither in the position map of a scan nor in
\* the response to a position query.
C7_BezPozycjiDlaOrbityZdegenerowanej ==
    /\ \A k \in 1..Len(obiekty) :
          OrbitaZdegenerowana(obiekty[k])
              => obiekty[k].id_rekordu \notin DOMAIN pozycje_map
    /\ zadanie.typ = "pozycja" =>
          \A k \in 1..Len(katalog) :
              (katalog[k].id_rekordu = zadanie.id /\ OrbitaZdegenerowana(katalog[k]))
                  => odpowiedz.kod # 200

\* C8: a /zblizenia request whose dates are readable and whose start is not
\* earlier than its end is refused with status 400, before the catalogue is
\* read and before any tick is analysed.
C8_ZakresOdrzuconyPrzedSkanem ==
    (DatyCzytelne /\ zadanie.start_date.czas >= zadanie.end_date.czas) =>
        /\ pc = "bezczynny"
        /\ odpowiedz.kod = 400
        /\ ~odczytano
        /\ obiekty = <<>>
        /\ licznik_krokow = 0
        /\ analizowane = <<>>
        /\ zdarzenia = <<>>

\* C8 witness: a request with start equal to end and a valid precision, on
\* a catalogue of three objects, has been refused.
C8_Swiadek ==
    /\ DatyCzytelne
    /\ zadanie.start_date.czas = zadanie.end_date.czas
    /\ zadanie.precision = <<"1", "h">>
    /\ Len(katalog) = 3
    /\ odpowiedz.kod = 400

\* C9: a completed scan has analysed exactly N + 1 ticks, N being the
\* number of steps between the snapped start and the snapped end: the ticks
\* are snapped start + k * step for k = 0..N, the last one being the snapped
\* end; a one-hour window with a ten-minute step gives 7 ticks.
C9_KrokiWrazZKoncem ==
    ZblizeniaZwrocone =>
        LET N == (czas_koniec - czas_start) \div delta_czasu
        IN  /\ czas_start % delta_czasu = 0
            /\ czas_koniec % delta_czasu = 0
            /\ 2 * Abs(czas_start - zadanie.start_date.czas) <= delta_czasu
            /\ 2 * Abs(czas_koniec - zadanie.end_date.czas) <= delta_czasu
            /\ licznik_krokow = N + 1
            /\ Len(analizowane) = N + 1
            /\ \A k \in 0..N : analizowane[k + 1] = czas_start + k * delta_czasu
            /\ analizowane[N + 1] = czas_koniec
            /\ (delta_czasu = 10 * MINUTA /\ czas_koniec - czas_start = GODZINA)
                  => licznik_krokow = 7

\* C9 witness: a scan of an aligned one-hour window with a ten-minute step
\* has completed after 7 ticks.
C9_Swiadek ==
    /\ ZblizeniaZwrocone
    /\ zadanie.precision = <<"1", "0", "m">>
    /\ zadanie.start_date.czas = czas_start
    /\ zadanie.end_date.czas = czas_koniec
    /\ czas_koniec - czas_start = GODZINA
    /\ Len(analizowane) = 7

\* C10: zaokraglij_do_siatki is idempotent: snapping a snapped instant
\* again returns it unchanged, and an instant on the grid is its own snap.
C10_ZaokraglenieIdempotentne ==
    /\ Len(g_wyniki) >= 2 => g_wyniki[2] = g_wyniki[1]
    /\ (Len(g_wyniki) >= 1 /\ g_dt % g_delta = 0) => g_wyniki[1] = g_dt

\* C10 witness: an instant halfway between two grid lines has been snapped
\* twice.
C10_Swiadek ==
    /\ Len(g_wyniki) = 2
    /\ 2 * (g_dt % g_delta) = g_delta
    /\ g_wyniki[1] # g_dt

\* C11: zaokraglij_do_siatki returns the nearest grid line: the result is a
\* whole multiple of the step, at most half a step away from the instant,
\* and no multiple of the step is strictly closer to the instant.
C11_NajblizszaLiniaSiatki ==
    Len(g_wyniki) >= 1 =>
        LET r == g_wyniki[1]
        IN  /\ r % g_delta = 0
            /\ 2 * Abs(r - g_dt) <= g_delta
            /\ \A k \in 0..(MaxChwila + 1) :
                  Abs(k * g_delta - g_dt) >= Abs(r - g_dt)

\* C11 witness: an instant off the grid has been rounded up, to a grid line
\* that is neither its floor nor the instant itself.
C11_Swiadek ==
    /\ Len(g_wyniki) >= 1
    /\ g_dt % g_delta # 0
    /\ g_wyniki[1] > g_dt
    /\ g_wyniki[1] = (g_dt \div g_delta + 1) * g_delta

\* the token is one or more decimal digits, not all of them 0, followed by
\* exactly one of ms, s, m, h, d
TokenPoprawny(tekst) ==
    \E n \in 1..(Len(tekst) - 1) :
        /\ \A i \in 1..n : tekst[i] \in {"0", "1", "2", "3", "4", "5", "6", "7", "8", "9"}
        /\ \E i \in 1..n : tekst[i] # "0"
        /\ SubSeq(tekst, n + 1, Len(tekst))
              \in {<<"m", "s">>, <<"s">>, <<"m">>, <<"h">>, <<"d">>}

\* C12: parsuj_precyzje returns a duration for exactly the tokens made of a
\* decimal integer >= 1 followed by one of ms, s, m, h, d; every other
\* token fails with a format error.
C12_DokladnieTokenyPoprawne ==
    p_wynik # BrakWyniku =>
        (p_wynik.typ = "timedelta" <=> TokenPoprawny(p_tekst))

\* C13: in every event of close-approach detection, of the interval scan
\* and of wykryj_kolizje alike, the recorded location is the position at the
\* event's instant of the object with the lower id, not a midpoint.
C13_LokalizacjaObiektuONizszymId ==
    /\ \A i \in 1..Len(zdarzenia), k \in 1..Len(obiekty) :
          obiekty[k].id_rekordu = zdarzenia[i].obiekt_id_a =>
              zdarzenia[i].lokalizacja
                  = oblicz_pozycje_w_czasie(obiekty[k], zdarzenia[i].moment_czasu)
    /\ \A i \in 1..Len(k_zdarzenia) :
          LET z == k_zdarzenia[i]
              p == k_pozycje[Min2(z.obiekt_id_a, z.obiekt_id_b)]
          IN  /\ z.lokalizacja.szer_geogr.licznik
                    = z.lokalizacja.szer_geogr.mianownik * p.szer_geogr
              /\ z.lokalizacja.dlug_geogr.licznik
                    = z.lokalizacja.dlug_geogr.mianownik * p.dlug_geogr
              /\ z.lokalizacja.wysokosc_npm.licznik
                    = z.lokalizacja.wysokosc_npm.mianownik * p.wysokosc_npm

\* C14: only active objects take part in the interval scan: an object whose
\* state is inactive or deorbited is neither id of any event, at any tick,
\* and holds no position in the map of a tick.
C14_TylkoAktywne ==
    \A k \in 1..Len(obiekty) :
        obiekty[k].stan_operacyjny # "active" =>
            /\ obiekty[k].id_rekordu \notin DOMAIN pozycje_map
            /\ \A i \in 1..Len(zdarzenia) :
                  obiekty[k].id_rekordu
                      \notin {zdarzenia[i].obiekt_id_a, zdarzenia[i].obiekt_id_b}

\* C14 witness: a scan has returned an event of two active objects from a
\* catalogue that holds, on their orbit and at their longitude and already
\* launched, a deorbited object.
C14_Swiadek ==
    /\ ZblizeniaZwrocone
    /\ Len(zdarzenia) > 0
    /\ \E l, m \in 1..Len(obiekty) :
          /\ obiekty[l].stan_operacyjny = "deorbited"
          /\ obiekty[m].stan_operacyjny = "active"
          /\ obiekty[l].orbita_ref = obiekty[m].orbita_ref
          /\ obiekty[l].pozycja_startowa_lon = obiekty[m].pozycja_startowa_lon
          /\ obiekty[l].data_wprowadzenia <= czas_start
          /\ obiekty[m].data_wprowadzenia <= czas_start
          /\ \E i \in 1..Len(zdarzenia) :
                obiekty[m].id_rekordu = zdarzenia[i].obiekt_id_a

\* C15: every longitude the propagation produces, and every value
\* _normalizuj_dlugosc returns for an angle of either sign, lies in
\* [-180, 180): it is at least -180 and strictly below 180; +180 goes to -180.
C15_DlugoscWPrzedziale ==
    /\ \A id \in DOMAIN pozycje_map :
          /\ pozycje_map[id].dlug_geogr >= -180
          /\ pozycje_map[id].dlug_geogr < 180
    /\ d_wynik # BrakWyniku =>
          /\ \/ d_wynik.stopnie > -180
             \/ d_wynik.stopnie = -180 /\ d_wynik.reszta >= 0
          /\ \/ d_wynik.stopnie < 180
             \/ d_wynik.stopnie = 180 /\ d_wynik.reszta < 0
          /\ d_kat = [stopnie |-> 180, reszta |-> 0]
                => d_wynik = [stopnie |-> -180, reszta |-> 0]

\* C16: the altitude of every position propaguj_pozycje returns is the
\* semi-major axis of the orbit minus 6371.0, whatever the elapsed time, the
\* inclination, the RAAN and the initial longitude.
C16_WysokoscZPolosi ==
    /\ \A k \in 1..Len(obiekty) :
          obiekty[k].id_rekordu \in DOMAIN pozycje_map =>
              pozycje_map[obiekty[k].id_rekordu].wysokosc_npm
                  = (SREDNICA_BAZOWA_ZIEMI + obiekty[k].orbita_ref.wysokosc_km)
                    - SREDNICA_BAZOWA_ZIEMI
    /\ (zadanie.typ = "pozycja" /\ odpowiedz.kod = 200) =>
          \A k \in 1..Len(katalog) :
              katalog[k].id_rekordu = zadanie.id =>
                  odpowiedz.tresc.wysokosc
                      = (SREDNICA_BAZOWA_ZIEMI + katalog[k].orbita_ref.wysokosc_km)
                        - SREDNICA_BAZOWA_ZIEMI

\* C16 witness: a tick later than the epochs holds positions of an object on
\* an inclined orbit with RAAN and initial longitude other than 0 and of an
\* object on an equatorial orbit.
C16_Swiadek ==
    /\ KrokPrzeanalizowany
    /\ \E k, l \in 1..Len(obiekty) :
          /\ obiekty[k].id_rekordu \in DOMAIN pozycje_map
          /\ obiekty[l].id_rekordu \in DOMAIN pozycje_map
          /\ obiekty[k].data_wprowadzenia < OstatniKrok
          /\ obiekty[l].data_wprowadzenia < OstatniKrok
          /\ obiekty[k].orbita_ref.kat_inklinacji # 0
          /\ obiekty[k].orbita_ref.wezel_wst # 0
          /\ obiekty[k].pozycja_startowa_lon # 0
          /\ obiekty[l].orbita_ref.kat_inklinacji = 0
          /\ pozycje_map[obiekty[k].id_rekordu].wysokosc_npm
                # pozycje_map[obiekty[l].id_rekordu].wysokosc_npm

\* the semi-major axis of the orbit of a catalogue row is below the radius
\* of the Earth
OrbitaPodPowierzchnia(model_obiektu) ==
    SREDNICA_BAZOWA_ZIEMI + model_obiektu.orbita_ref.wysokosc_km < SREDNICA_BAZOWA_ZIEMI

\* C17: no position is returned for an orbit whose semi-major axis is below
\* the radius of the Earth: such an object is in no position map, no
\* position query about it is answered with coordinates, and no computed
\* position has a negative altitude.
C17_BezPozycjiPodPowierzchnia ==
    /\ \A k \in 1..Len(obiekty) :
          OrbitaPodPowierzchnia(obiekty[k])
              => obiekty[k].id_rekordu \notin DOMAIN pozycje_map
    /\ \A id \in DOMAIN pozycje_map : pozycje_map[id].wysokosc_npm >= 0
    /\ (zadanie.typ = "pozycja" /\ odpowiedz.kod = 200) =>
          /\ odpowiedz.tresc.wysokosc >= 0
          /\ \A k \in 1..Len(katalog) :
                katalog[k].id_rekordu = zadanie.id
                    => ~OrbitaPodPowierzchnia(katalog[k])

\* C18: two active, launched objects whose distance at an analysed tick is
\* at most the threshold are reported as a close approach at that tick, a
\* distance equal to the threshold and a distance of 0 included.
C18_ZgloszoneGdyProgNieMniejszy ==
    KrokPrzeanalizowany =>
        \A a, b \in DOMAIN pozycje_map :
            (a < b /\ dystans_do_kw(pozycje_map[a], pozycje_map[b])
                          <= TOLERANCJA_ZBLIZENIA * TOLERANCJA_ZBLIZENIA)
                => ZdarzenieDla(a, b, OstatniKrok)

C20_EpokaWTejSamejChwili ==
    \A i \in 1..Len(bd_obiekty) :
        Chwila(ZapewnijUTC(bd_obiekty[i].data_wprowadzenia))
            = w_chwile[bd_obiekty[i].id_rekordu]

\* C21: the scan of an accepted request terminates: the step is positive, so
\* every iteration moves the current instant strictly forward, and a handler
\* inside the loop eventually leaves it and answers.
C21_SkanSieKonczy ==
    /\ [][(pc = "petla" /\ pc' = "petla") =>
             /\ delta_czasu > 0
             /\ czas_obecny' > czas_obecny
             /\ czas_koniec' = czas_koniec]_vars
    /\ (pc = "petla") ~> (pc = "bezczynny" /\ odpowiedz.kod # 0)

\* a scan of several ticks has returned its list
C21_Swiadek ==
    /\ ZblizeniaZwrocone
    /\ Len(analizowane) >= 3
    /\ czas_obecny > czas_koniec

\* C22: every event wykryj_kolizje returns names the object of the lower
\* identifier first, in whatever order the query has returned the rows.
C22_KolizjeOdNizszegoId ==
    \A i \in 1..Len(k_zdarzenia) :
        k_zdarzenia[i].obiekt_id_a < k_zdarzenia[i].obiekt_id_b

\* C23: a request whose start is before its end is scanned from a snapped
\* start that is not after the snapped end, so at least one tick is
\* analysed; when both ends snap to one grid line, that line is the only tick.
C23_PoczatekNiePoKoncu ==
    /\ (zadanie.typ = "zblizenia" /\ odczytano) =>
          /\ zadanie.start_date.czas < zadanie.end_date.czas
          /\ czas_start = zaokraglij_do_siatki(zadanie.start_date.czas, delta_czasu)
          /\ czas_koniec = zaokraglij_do_siatki(zadanie.end_date.czas, delta_czasu)
          /\ czas_start <= czas_koniec
    /\ ZblizeniaZwrocone =>
          /\ Len(analizowane) >= 1
          /\ czas_start = czas_koniec => analizowane = <<czas_start>>

\* both ends of the interval have snapped to one grid line after the end, and
\* the scan has analysed that line
C23_Swiadek ==
    /\ ZblizeniaZwrocone
    /\ czas_start = czas_koniec
    /\ analizowane = <<czas_start>>
    /\ czas_start > zadanie.end_date.czas

\* C24: the instant of every event of the interval scan is a grid point: a
\* whole multiple of the step, a whole number of steps after the snapped
\* start, and not after the snapped end.
C24_ZdarzeniaNaSiatce ==
    (zadanie.typ = "zblizenia" /\ odczytano) =>
        \A i \in 1..Len(zdarzenia) :
            LET moment == zdarzenia[i].moment_czasu
            IN  /\ moment % delta_czasu = 0
                /\ \E k \in 0..((czas_koniec - czas_start) \div delta_czasu) :
                      moment = czas_start + k * delta_czasu
                /\ czas_start <= moment
                /\ moment <= czas_koniec

\* a start off the grid was snapped, and the returned list has an event at a
\* tick after the snapped start
C24_Swiadek ==
    /\ ZblizeniaZwrocone
    /\ zadanie.start_date.czas % delta_czasu # 0
    /\ \E i \in 1..Len(zdarzenia) : zdarzenia[i].moment_czasu > czas_start

\* C25: the interval scan holds at most one event per tick and pair of
\* objects: no two events of a list agree in instant and in both identifiers,
\* in either order of the identifiers.
C25_BezPowtorzen ==
    \A i, j \in 1..Len(zdarzenia) :
        (i # j /\ zdarzenia[i].moment_czasu = zdarzenia[j].moment_czasu) =>
            {zdarzenia[i].obiekt_id_a, zdarzenia[i].obiekt_id_b}
                # {zdarzenia[j].obiekt_id_a, zdarzenia[j].obiekt_id_b}

\* a returned list with the same pair at two ticks and two pairs at one tick
C25_Swiadek ==
    /\ ZblizeniaZwrocone
    /\ \E i, j \in 1..Len(zdarzenia) :
          /\ zdarzenia[i].moment_czasu # zdarzenia[j].moment_czasu
          /\ zdarzenia[i].obiekt_id_a = zdarzenia[j].obiekt_id_a
          /\ zdarzenia[i].obiekt_id_b = zdarzenia[j].obiekt_id_b
    /\ \E i, j \in 1..Len(zdarzenia) :
          /\ zdarzenia[i].moment_czasu = zdarzenia[j].moment_czasu
          /\ zdarzenia[i].obiekt_id_b # zdarzenia[j].obiekt_id_b

\* C26: every stored object references a stored orbit; a request that would
\* create or update an object with an orbit id that is not stored is refused
\* and writes nothing; the deletion of an orbit some object references is
\* answered 409 and leaves both tables as they were.
C26_ObiektyMajaOrbity ==
    /\ [](\A i \in 1..Len(bd_obiekty) :
             bd_obiekty[i].id_orbity_powiazanej \in Klucze(bd_orbity))
    /\ [][(/\ w_zadanie'.typ \in {"POST", "PUT"}
           /\ w_zadanie'.dane.id_orbity \notin Klucze(bd_orbity))
             => /\ w_odpowiedz'.kod >= 400
                /\ UNCHANGED <<bd_obiekty, bd_orbity>>]_vars
    /\ [][(/\ w_zadanie'.typ = "DELETE /orbity"
           /\ \E i \in 1..Len(bd_obiekty) :
                 bd_obiekty[i].id_orbity_powiazanej = w_zadanie'.id)
             => /\ w_odpowiedz'.kod = 409
                /\ UNCHANGED <<bd_obiekty, bd_orbity>>]_vars

\* the deletion of an orbit that an object references has been refused,
\* while another orbit is stored that could be deleted
C26_Swiadek ==
    /\ w_zadanie.typ = "DELETE /orbity"
    /\ w_odpowiedz.kod = 409
    /\ Len(bd_orbity) = 2
    /\ \E i \in 1..Len(bd_obiekty) : bd_obiekty[i].id_orbity_powiazanej = w_zadanie.id
    /\ \E k \in Klucze(bd_orbity) : liczba_powiazanych(k) = 0

====
